---- MODULE Spec2Model ----
(***************************************************************************)
(* A state-machine model of the expense tracker (src/app.py): the tables   *)
(* of the PostgreSQL data store, the per-client Flask session, and one     *)
(* action per route handler.  A handler runs on one connection and commits *)
(* once, at its end, so a handler that runs to its end is one atomic step. *)
(* The last part of the module runs the writing handlers statement by      *)
(* statement, for the requests that fail midway or run side by side.       *)
(*                                                                         *)
(* Money is NUMERIC(_, 2): an amount is an integer number of cents.        *)
(* A calendar date is a record [y, m, d].  A Python dict is a sequence of  *)
(* <<key, value>> pairs with distinct keys, in insertion order.            *)
(***************************************************************************)
EXTENDS Integers, Sequences, FiniteSets, TLC

VARIABLES
    users,             \* table users: [id, email, password_hash, profile_picture_url]
    incomes,           \* table incomes: [user_id, monthly_income, currency]
    other_incomes,     \* table other_incomes, in heap order: [user_id, source_name, amount]
    budgets,           \* table budgets: [user_id, total_monthly_budget]
    category_budgets,  \* table category_budgets: [user_id, category_name, amount]
    expenses,          \* table expenses: [id, user_id, amount, category, expense_date]
    investments,       \* table investments: [id, user_id, amount_invested, investment_type, investment_date]
    assets,            \* table assets: [id, user_id, value]
    liabilities,       \* table liabilities: [id, user_id, amount_owed]
    financial_goals,   \* table financial_goals: [id, user_id, target_amount, goal_type]
    seq,               \* the SERIAL sequence of each table with an id column
    uploads,           \* files saved under static/uploads/profile_pics
    session,           \* each client's session cookie: its user_id, or NoUser
    current_date,      \* the data store's CURRENT_DATE
    request,           \* the request served last
    response,          \* and the response to it
    conn               \* each client's connection of a request run statement by statement

tables == <<users, incomes, other_incomes, budgets, category_budgets, expenses,
            investments, assets, liabilities, financial_goals, seq>>
vars == <<users, incomes, other_incomes, budgets, category_budgets, expenses,
          investments, assets, liabilities, financial_goals, seq, uploads,
          session, current_date, request, response, conn>>

(***************************************************************************)
(* Bounds of the model and the input domains the requests draw from.       *)
(***************************************************************************)
MaxRows == 2          \* rows inserted into the tables with an id column (Spec)
MaxGuardRows == 1     \* the same, in SpecGuard
MaxExpenses == 2      \* expense rows inserted by requests (SpecDash, SpecMonths)

Clients == {"c1", "c2"}
NoUser == 0           \* 'user_id' not in session
Emails == {"a@x", "b@x"}
Passwords == {"pw", "bad"}
Currencies == {"$", "EUR"}
Amounts == {300, 500}

(***************************************************************************)
(* Text.  Python compares and transforms strings by code point; the names  *)
(* the model uses are listed here with their code points.                  *)
(***************************************************************************)
CodePoints(s) ==
    CASE s = "Food"                 -> <<70, 111, 111, 100>>
      [] s = "Travel"               -> <<84, 114, 97, 118, 101, 108>>
      [] s = "Eating Out"           -> <<69, 97, 116, 105, 110, 103, 32, 79, 117, 116>>
      [] s = "category_food"        -> <<99, 97, 116, 101, 103, 111, 114, 121, 95, 102, 111, 111, 100>>
      [] s = "category_eating_out"  -> <<99, 97, 116, 101, 103, 111, 114, 121, 95, 101, 97, 116, 105,
                                         110, 103, 95, 111, 117, 116>>
      [] s = "category_"            -> <<99, 97, 116, 101, 103, 111, 114, 121, 95>>
      [] s = "total_monthly_budget" -> <<116, 111, 116, 97, 108, 95, 109, 111, 110, 116, 104, 108, 121,
                                         95, 98, 117, 100, 103, 101, 116>>

Names == {"Food", "Travel", "Eating Out", "category_food", "category_eating_out",
          "category_", "total_monthly_budget"}

\* The name with the given code points.
FromCodePoints(cs) == CHOOSE s \in Names : CodePoints(s) = cs

\* a < b for two sequences of code points, as Python and 'ORDER BY' on text compare.
RECURSIVE SeqLess(_, _)
SeqLess(a, b) ==
    IF b = <<>> THEN FALSE
    ELSE IF a = <<>> THEN TRUE
    ELSE IF Head(a) # Head(b) THEN Head(a) < Head(b)
    ELSE SeqLess(Tail(a), Tail(b))

StrLess(s, t) == SeqLess(CodePoints(s), CodePoints(t))

(***************************************************************************)
(* Calendar dates.                                                         *)
(***************************************************************************)
Date(y, m, d) == [y |-> y, m |-> m, d |-> d]

\* The number of days from 1970-01-01 to the date (proleptic Gregorian calendar).
DayNumber(date) ==
    LET yy  == IF date.m <= 2 THEN date.y - 1 ELSE date.y
        era == yy \div 400
        yoe == yy - era * 400
        mp  == IF date.m > 2 THEN date.m - 3 ELSE date.m + 9
        doy == (153 * mp + 2) \div 5 + date.d - 1
        doe == yoe * 365 + yoe \div 4 - yoe \div 100 + doy
    IN  era * 146097 + doe - 719468

DayNames == <<"SUN", "MON", "TUE", "WED", "THU", "FRI", "SAT">>

\* to_char(date, 'DY'): 1970-01-01 was a Thursday.
ToCharDY(date) == DayNames[((DayNumber(date) + 4) % 7) + 1]

\* date_part('month', date)
DatePartMonth(date) == date.m

\* The code point of the decimal digit n % 10.
DigitChar(n) == 48 + (n % 10)

\* to_char(date, 'YYYY-MM'), as the code points of its seven characters.
ToCharYYYYMM(date) ==
    <<DigitChar(date.y \div 1000), DigitChar(date.y \div 100), DigitChar(date.y \div 10),
      DigitChar(date.y), 45, DigitChar(date.m \div 10), DigitChar(date.m)>>

(***************************************************************************)
(* What a query returns.  A value that may be NULL (or None) is a sequence *)
(* of length at most one.                                                  *)
(***************************************************************************)
Null == <<>>

RECURSIVE SumField(_, _)
SumField(rows, fld) ==
    IF rows = {} THEN 0
    ELSE LET r == CHOOSE x \in rows : TRUE
         IN  r[fld] + SumField(rows \ {r}, fld)

\* SELECT SUM(fld): NULL over no rows.
SqlSum(rows, fld) == IF rows = {} THEN Null ELSE <<SumField(rows, fld)>>

\* Python's "x or 0" for a fetched value x: 0 for None and for a zero.
OrZero(x) == IF x = Null \/ x = <<0>> THEN 0 ELSE x[1]

\* cur.fetchone() for a query on a unique key, which matches at most one row:
\* the row, or None.
FetchOne(rows) == IF rows = {} THEN Null ELSE <<CHOOSE r \in rows : TRUE>>

\* The orders in which a query may return the rows [k, v]: ascending in the
\* ORDER BY rank k, rows of equal rank (and all rows, without an ORDER BY)
\* in any order.
RECURSIVE OrderedBy(_)
OrderedBy(S) ==
    IF S = {} THEN {<<>>}
    ELSE LET first == {x \in S : \A z \in S : x.k <= z.k}
         IN  UNION {{<<x.v>> \o t : t \in OrderedBy(S \ {x})} : x \in first}

\* The rows of a table scanned without an ORDER BY.
AnyOrder(rows) == OrderedBy({[k |-> 0, v |-> r] : r \in rows})

\* float(x) of a NUMERIC(_, 2) value: the nearest double.  Below 2^53 cents the
\* doubles of distinct amounts are distinct and their sums round to the cent of
\* the exact sum, so a float is given by the cents it stands for.
Float(x) == x

(***************************************************************************)
(* Python dicts and lists.                                                 *)
(***************************************************************************)
DictKeys(d) == [i \in 1..Len(d) |-> d[i][1]]
DictValues(d) == [i \in 1..Len(d) |-> d[i][2]]
DictHas(d, k) == \E i \in 1..Len(d) : d[i][1] = k

\* d[k] = v: a key already present keeps its place and takes the new value.
DictSet(d, k, v) ==
    IF DictHas(d, k)
    THEN [i \in 1..Len(d) |-> IF d[i][1] = k THEN <<k, v>> ELSE d[i]]
    ELSE Append(d, <<k, v>>)

\* d.get(k, default)
DictGet(d, k, default) ==
    IF DictHas(d, k) THEN d[CHOOSE i \in 1..Len(d) : d[i][1] = k][2] ELSE default

\* {key: value for ... in pairs}: the pairs are stored from first to last.
RECURSIVE DictOf(_)
DictOf(pairs) ==
    IF pairs = <<>> THEN <<>>
    ELSE LET n == Len(pairs)
         IN  DictSet(DictOf(SubSeq(pairs, 1, n - 1)), pairs[n][1], pairs[n][2])

Range(s) == {s[i] : i \in 1..Len(s)}

(***************************************************************************)
(* Responses.                                                              *)
(***************************************************************************)
NoBody == [none |-> TRUE]

\* redirect(url_for(location)), after flash(message)
Redirect(location, message) ==
    [status |-> 302, location |-> location, template |-> "", flash |-> message,
     body |-> NoBody, current_user |-> Null]

\* jsonify(body), status
Json(status, body) ==
    [status |-> status, location |-> "", template |-> "", flash |-> "",
     body |-> body, current_user |-> Null]

\* A request: the handler it reaches, its method, the user_id the client's
\* session holds, and the arguments the claims are about.
Req(c, handler, method, args) ==
    [handler |-> handler, method |-> method, user_id |-> session[c], args |-> args]

NoArgs == [none |-> TRUE]

(***************************************************************************)
(* The initial state: an empty data store, no session.                     *)
(***************************************************************************)
Today == Date(2024, 5, 15)

InitSeq == [users |-> 1, expenses |-> 1, investments |-> 1, assets |-> 1,
            liabilities |-> 1, financial_goals |-> 1]

\* No connection: none was opened, or it was closed.
NoConn == [open |-> FALSE, running |-> FALSE, handler |-> "", user_id |-> NoUser,
           program |-> <<>>, writes |-> <<>>]

Init ==
    /\ users = {}
    /\ incomes = {}
    /\ other_incomes = <<>>
    /\ budgets = {}
    /\ category_budgets = {}
    /\ expenses = {}
    /\ investments = {}
    /\ assets = {}
    /\ liabilities = {}
    /\ financial_goals = {}
    /\ seq = InitSeq
    /\ uploads = {}
    /\ session = [c \in Clients |-> NoUser]
    /\ current_date = Today
    /\ request = Req("c1", "home", "GET", NoArgs)
    /\ response = [status |-> 200, location |-> "", template |-> "home.html", flash |-> "",
                   body |-> NoBody, current_user |-> Null]
    /\ conn = [c \in Clients |-> NoConn]

moneyTables == <<incomes, other_incomes, budgets, category_budgets>>
listTables == <<expenses, investments, assets, liabilities, financial_goals>>

(***************************************************************************)
(* The guard of the protected handlers.                                    *)
(***************************************************************************)
\* 'user_id' in session
LoggedIn(c) == session[c] # NoUser

\* A request served in one step: the handler ran to its end, and the connection
\* it opened, if any, is closed again.
Serve(c, handler, method, args) ==
    /\ request' = Req(c, handler, method, args)
    /\ UNCHANGED conn

\* The mutant: the handler's body runs whatever the session holds.
login_required_NoCheck(c, body) == body

\* @login_required: without a user_id the handler's body does not run.
login_required(c, body) ==
    IF ~LoggedIn(c)
    THEN /\ response' = Redirect("signin", "You need to be logged in to view this page.")
         /\ UNCHANGED <<tables, uploads, session, current_date>>
    ELSE body

\* generate_password_hash / check_password_hash: a hash matches its password only.
generate_password_hash(password) == [hash_of |-> password]
check_password_hash(hash, password) == hash.hash_of = password

\* get_user_data(user_id): the user's row with the currency of its income row
\* ('$' without one), or None.
get_user_data(user_id) ==
    LET user == FetchOne({u \in users : u.id = user_id})
        currency_row == FetchOne({r \in incomes : r.user_id = user_id})
    IN  IF user = Null THEN Null
        ELSE <<[id |-> user[1].id, email |-> user[1].email,
                profile_picture_url |-> user[1].profile_picture_url,
                currency |-> IF currency_row = Null THEN "$" ELSE currency_row[1].currency]>>

\* inject_user: every rendered template is given current_user.
inject_user(c) == IF LoggedIn(c) THEN get_user_data(session[c]) ELSE Null

\* render_template(template, **body)
Render(c, template, body) ==
    [status |-> 200, location |-> "", template |-> template, flash |-> "",
     body |-> body, current_user |-> inject_user(c)]

(***************************************************************************)
(* Authentication and onboarding.                                          *)
(***************************************************************************)
home(c) ==
    /\ Serve(c, "home", "GET", NoArgs)
    /\ response' = Render(c, "home.html", NoBody)
    /\ UNCHANGED <<tables, uploads, session, current_date>>

signup(c, method, email, password) ==
    /\ Serve(c, "signup", method, [email |-> email])
    /\ IF method = "POST"
       THEN IF \E u \in users : u.email = email
            THEN /\ response' = Redirect("signup", "Email address already registered.")
                 /\ UNCHANGED <<tables, session>>
            ELSE /\ users' = users \cup {[id |-> seq.users, email |-> email,
                                          password_hash |-> generate_password_hash(password),
                                          profile_picture_url |-> ""]}
                 /\ seq' = [seq EXCEPT !.users = @ + 1]
                 /\ session' = [session EXCEPT ![c] = seq.users]
                 /\ response' = Redirect("income", "Account created! Let's start with your income.")
                 /\ UNCHANGED <<moneyTables, listTables>>
       ELSE /\ response' = Render(c, "signup.html", NoBody)
            /\ UNCHANGED <<tables, session>>
    /\ UNCHANGED <<uploads, current_date>>

signin(c, method, email, password) ==
    /\ Serve(c, "signin", method, [email |-> email])
    /\ IF method = "POST" /\ \E u \in users : u.email = email /\ check_password_hash(u.password_hash, password)
       THEN /\ session' = [session EXCEPT ![c] = (CHOOSE u \in users : u.email = email).id]
            /\ response' = Redirect("dashboard", "")
       ELSE /\ response' = [Render(c, "signin.html", NoBody) EXCEPT
                              !.flash = IF method = "POST" THEN "Invalid email or password." ELSE ""]
            /\ UNCHANGED session
    /\ UNCHANGED <<tables, uploads, current_date>>

logout(c) ==
    /\ Serve(c, "logout", "GET", NoArgs)
    /\ session' = [session EXCEPT ![c] = NoUser]
    /\ response' = Redirect("home", "You have been logged out.")
    /\ UNCHANGED <<tables, uploads, current_date>>

(***************************************************************************)
(* Rows deleted by id: the statement names the id and the acting user.     *)
(***************************************************************************)
\* The mutant: DELETE ... WHERE id = %s, whoever owns the row.
DeleteWhereIdOnly(rows, id, user_id) == {r \in rows : r.id # id}

\* DELETE FROM <table> WHERE id = %s AND user_id = %s
DeleteWhereIdAndUser(rows, id, user_id) == {r \in rows : ~(r.id = id /\ r.user_id = user_id)}

(***************************************************************************)
(* Financial goals.                                                        *)
(***************************************************************************)
add_goal(c, target_amount, goal_type) ==
    /\ Serve(c, "add_goal", "POST", NoArgs)
    /\ login_required(c,
         /\ financial_goals' = financial_goals \cup
                {[id |-> seq.financial_goals, user_id |-> session[c],
                  target_amount |-> target_amount, goal_type |-> goal_type]}
         /\ seq' = [seq EXCEPT !.financial_goals = @ + 1]
         /\ response' = Redirect("dashboard", "Financial goal added!")
         /\ UNCHANGED <<users, moneyTables, expenses, investments, assets, liabilities,
                        uploads, session, current_date>>)

delete_goal(c, goal_id) ==
    /\ Serve(c, "delete_goal", "POST", [id |-> goal_id])
    /\ login_required(c,
         /\ financial_goals' = DeleteWhereIdAndUser(financial_goals, goal_id, session[c])
         /\ response' = Redirect("dashboard", "Goal removed.")
         /\ UNCHANGED <<users, moneyTables, expenses, investments, assets, liabilities, seq,
                        uploads, session, current_date>>)

(***************************************************************************)
(* Income and budget: the singleton row is upserted, the list is cleared   *)
(* and inserted again.                                                     *)
(***************************************************************************)
\* The mutant: a plain INSERT, with no ON CONFLICT clause.
InsertOnly(rows, row) == rows \cup {row}

\* INSERT ... ON CONFLICT (user_id) DO UPDATE SET <every other column> = EXCLUDED.<it>
Upsert(rows, row) == {r \in rows : r.user_id # row.user_id} \cup {row}

\* A form field is blank (<<>>) or holds one value.
Blank == <<>>

\* zip(a, b)
Zip(a, b) == [i \in 1..(IF Len(a) < Len(b) THEN Len(a) ELSE Len(b)) |-> <<a[i], b[i]>>]

\* The rows the income form adds: one for each pair with a name and an amount.
RECURSIVE OtherIncomeRows(_, _)
OtherIncomeRows(user_id, pairs) ==
    IF pairs = <<>> THEN <<>>
    ELSE LET name == Head(pairs)[1]
             amount == Head(pairs)[2]
             rest == OtherIncomeRows(user_id, Tail(pairs))
         IN  IF name # "" /\ amount # Blank
             THEN <<[user_id |-> user_id, source_name |-> name, amount |-> amount[1]]>> \o rest
             ELSE rest

income(c, method, monthly_income, currency, source_names, source_amounts) ==
    /\ Serve(c, "income", method, [monthly_income |-> monthly_income, currency |-> currency])
    /\ login_required(c,
         LET user_id == session[c] IN
         /\ IF method = "POST"
            THEN /\ incomes' = Upsert(incomes, [user_id |-> user_id, monthly_income |-> monthly_income,
                                                 currency |-> currency])
                 /\ other_incomes' = SelectSeq(other_incomes, LAMBDA r : r.user_id # user_id)
                                       \o OtherIncomeRows(user_id, Zip(source_names, source_amounts))
                 /\ response' = Redirect("budget", "Income details saved.")
            ELSE /\ response' = Render(c, "income.html", NoBody)
                 /\ UNCHANGED <<incomes, other_incomes>>
         /\ UNCHANGED <<users, budgets, category_budgets, listTables, seq, uploads, session, current_date>>)

StartsWith(s, prefix) == Len(s) >= Len(prefix) /\ SubSeq(s, 1, Len(prefix)) = prefix

\* s.replace(old, new) on code points, old not empty.
RECURSIVE Replace(_, _, _)
Replace(s, old, new) ==
    IF Len(s) < Len(old) THEN s
    ELSE IF StartsWith(s, old) THEN new \o Replace(SubSeq(s, Len(old) + 1, Len(s)), old, new)
    ELSE <<Head(s)>> \o Replace(Tail(s), old, new)

IsUpper(ch) == ch >= 65 /\ ch <= 90
IsLower(ch) == ch >= 97 /\ ch <= 122

\* s.title(): a letter after a letter is lower-cased, any other letter upper-cased.
Title(s) ==
    [i \in 1..Len(s) |->
        IF i > 1 /\ (IsUpper(s[i - 1]) \/ IsLower(s[i - 1]))
        THEN IF IsUpper(s[i]) THEN s[i] + 32 ELSE s[i]
        ELSE IF IsLower(s[i]) THEN s[i] - 32 ELSE s[i]]

\* key.replace('category_', '').replace('_', ' ').title()
CategoryName(key) ==
    FromCodePoints(Title(Replace(Replace(CodePoints(key), CodePoints("category_"), <<>>),
                                 <<95>>, <<32>>)))

\* The rows the budget form adds: one for each key that starts with
\* 'category_' and has a value.
CategoryBudgetRows(user_id, form) ==
    {[user_id |-> user_id, category_name |-> CategoryName(key), amount |-> form[key][1]] :
        key \in {k \in DOMAIN form :
                    StartsWith(CodePoints(k), CodePoints("category_")) /\ form[k] # Blank}}

budget(c, method, form) ==
    /\ Serve(c, "budget", method, [total_monthly_budget |-> form["total_monthly_budget"][1]])
    /\ login_required(c,
         LET user_id == session[c] IN
         /\ IF method = "POST"
            THEN /\ budgets' = Upsert(budgets, [user_id |-> user_id,
                                                 total_monthly_budget |-> form["total_monthly_budget"][1]])
                 /\ category_budgets' = {r \in category_budgets : r.user_id # user_id}
                                          \cup CategoryBudgetRows(user_id, form)
                 /\ response' = Redirect("expense",
                                  "Budgets saved successfully! Now you can start adding expenses.")
            ELSE /\ response' = Render(c, "budget.html", NoBody)
                 /\ UNCHANGED <<budgets, category_budgets>>
         /\ UNCHANGED <<users, incomes, other_incomes, listTables, seq, uploads, session, current_date>>)

(***************************************************************************)
(* The profile picture.  file is "" without a file part, otherwise its     *)
(* filename; unique_filename is str(uuid.uuid4()) with its extension.      *)
(***************************************************************************)
NoFilePart == [part |-> FALSE, filename |-> ""]
FilePart(filename) == [part |-> TRUE, filename |-> filename]

upload_profile_picture(c, file, unique_filename) ==
    /\ Serve(c, "upload_profile_picture", "POST", NoArgs)
    /\ login_required(c,
         /\ IF ~file.part
            THEN /\ response' = Redirect("dashboard", "No file part")
                 /\ UNCHANGED <<users, uploads>>
            ELSE IF file.filename = ""
            THEN /\ response' = Redirect("dashboard", "No selected file")
                 /\ UNCHANGED <<users, uploads>>
            ELSE /\ uploads' = uploads \cup {unique_filename}
                 /\ users' = {IF u.id = session[c]
                              THEN [u EXCEPT !.profile_picture_url = unique_filename]
                              ELSE u : u \in users}
                 /\ response' = Redirect("dashboard", "Profile picture updated!")
         /\ UNCHANGED <<moneyTables, listTables, seq, session, current_date>>)

(***************************************************************************)
(* Expenses, investments, assets and liabilities.                          *)
(***************************************************************************)
\* LIMIT n
Limit(rows, n) == SubSeq(rows, 1, IF Len(rows) < n THEN Len(rows) ELSE n)

\* ORDER BY expense_date DESC, id DESC: a row's rank is the number of rows before it.
NewestFirst(rows) ==
    OrderedBy({[k |-> Cardinality({z \in rows :
                        \/ DayNumber(z.expense_date) > DayNumber(r.expense_date)
                        \/ z.expense_date = r.expense_date /\ z.id > r.id}),
                v |-> r] : r \in rows})

expense(c, method, amount, category, date) ==
    /\ Serve(c, "expense", method, NoArgs)
    /\ login_required(c,
         /\ IF method = "POST"
            THEN /\ expenses' = expenses \cup
                        {[id |-> seq.expenses, user_id |-> session[c], amount |-> amount,
                          category |-> category, expense_date |-> date]}
                 /\ seq' = [seq EXCEPT !.expenses = @ + 1]
                 /\ response' = Redirect("expenses_list", "Expense added successfully!")
            ELSE /\ response' = Render(c, "expense.html", NoBody)
                 /\ UNCHANGED <<expenses, seq>>
         /\ UNCHANGED <<users, moneyTables, investments, assets, liabilities, financial_goals,
                        uploads, session, current_date>>)

expenses_list(c, sort_by) ==
    /\ Serve(c, "expenses_list", "GET", NoArgs)
    /\ login_required(c,
         LET user_id == session[c]
             mine == {e \in expenses : e.user_id = user_id}
         IN
         /\ \E rows \in IF sort_by = "amount_high_low"
                        THEN OrderedBy({[k |-> 0 - e.amount, v |-> e] : e \in mine})
                        ELSE NewestFirst(mine) :
                response' = Render(c, "expense2.html",
                                   [expenses |-> rows, user |-> get_user_data(user_id)])
         /\ UNCHANGED <<tables, uploads, session, current_date>>)

investments_page(c, method, action, amount_invested, investment_type, investment_date, investment_id) ==
    /\ Serve(c, "investments", method, [action |-> action, id |-> investment_id])
    /\ login_required(c,
         LET user_id == session[c] IN
         /\ IF method = "POST"
            THEN /\ IF action = "add"
                    THEN /\ investments' = investments \cup
                                {[id |-> seq.investments, user_id |-> user_id,
                                  amount_invested |-> amount_invested,
                                  investment_type |-> investment_type,
                                  investment_date |-> investment_date]}
                         /\ seq' = [seq EXCEPT !.investments = @ + 1]
                         /\ response' = Redirect("investments", "Investment added successfully!")
                    ELSE IF action = "delete"
                    THEN /\ investments' = DeleteWhereIdAndUser(investments, investment_id, user_id)
                         /\ response' = Redirect("investments", "Investment deleted.")
                         /\ UNCHANGED seq
                    ELSE /\ response' = Redirect("investments", "")
                         /\ UNCHANGED <<investments, seq>>
            ELSE /\ \E rows \in OrderedBy({[k |-> 0 - DayNumber(r.investment_date), v |-> r] :
                                             r \in {x \in investments : x.user_id = user_id}}) :
                        response' = Render(c, "investments.html", [investments |-> rows])
                 /\ UNCHANGED <<investments, seq>>
         /\ UNCHANGED <<users, moneyTables, expenses, assets, liabilities, financial_goals,
                        uploads, session, current_date>>)

\* ORDER BY id
ById(rows) == OrderedBy({[k |-> r.id, v |-> r] : r \in rows})

assetdebt(c, method, action, form_type, amount, item_id) ==
    /\ Serve(c, "assetdebt", method,
                      [action |-> action, form_type |-> form_type, id |-> item_id])
    /\ login_required(c,
         LET user_id == session[c]
             user == get_user_data(user_id)
         IN
         /\ IF method = "POST" /\ action = "add" /\ form_type = "asset"
            THEN /\ assets' = assets \cup {[id |-> seq.assets, user_id |-> user_id, value |-> amount]}
                 /\ seq' = [seq EXCEPT !.assets = @ + 1]
                 /\ response' = Redirect("assetdebt", "Asset added!")
                 /\ UNCHANGED liabilities
            ELSE IF method = "POST" /\ action = "add" /\ form_type = "liability"
            THEN /\ liabilities' = liabilities \cup
                        {[id |-> seq.liabilities, user_id |-> user_id, amount_owed |-> amount]}
                 /\ seq' = [seq EXCEPT !.liabilities = @ + 1]
                 /\ response' = Redirect("assetdebt", "Liability added!")
                 /\ UNCHANGED assets
            ELSE IF method = "POST" /\ action = "delete" /\ form_type = "asset"
            THEN /\ assets' = DeleteWhereIdAndUser(assets, item_id, user_id)
                 /\ response' = Redirect("assetdebt", "Asset deleted.")
                 /\ UNCHANGED <<liabilities, seq>>
            ELSE IF method = "POST" /\ action = "delete" /\ form_type = "liability"
            THEN /\ liabilities' = DeleteWhereIdAndUser(liabilities, item_id, user_id)
                 /\ response' = Redirect("assetdebt", "Liability deleted.")
                 /\ UNCHANGED <<assets, seq>>
            ELSE IF method = "POST"
            THEN /\ response' = Redirect("assetdebt", "")
                 /\ UNCHANGED <<assets, liabilities, seq>>
            ELSE /\ \E a \in ById({x \in assets : x.user_id = user_id}),
                       l \in ById({x \in liabilities : x.user_id = user_id}) :
                        response' = Render(c, "assetdebt.html",
                            [assets |-> a, liabilities |-> l,
                             net_worth |-> SumField(Range(a), "value")
                                             - SumField(Range(l), "amount_owed"),
                             user |-> user])
                 /\ UNCHANGED <<assets, liabilities, seq>>
         /\ UNCHANGED <<users, moneyTables, expenses, investments, financial_goals,
                        uploads, session, current_date>>)

(***************************************************************************)
(* Pages without data, and the chat.                                       *)
(***************************************************************************)
reports(c) ==
    /\ Serve(c, "reports", "GET", NoArgs)
    /\ login_required(c,
         /\ response' = Render(c, "reports.html", NoBody)
         /\ UNCHANGED <<tables, uploads, session, current_date>>)

chatbot_page(c) ==
    /\ Serve(c, "chatbot_page", "GET", NoArgs)
    /\ login_required(c,
         /\ response' = Render(c, "chatbot.html", NoBody)
         /\ UNCHANGED <<tables, uploads, session, current_date>>)

\* configured: the text-generation model was set up at start; upstream: what
\* model.generate_content does, "ok" or "error".
chat_api(c, configured, user_message, upstream) ==
    /\ Serve(c, "chat_api", "POST", NoArgs)
    /\ login_required(c,
         /\ response' = IF ~configured THEN Json(500, [error |-> "Chatbot is not configured."])
                        ELSE IF user_message = "" THEN Json(400, [error |-> "No message provided."])
                        ELSE IF upstream = "ok" THEN Json(200, [reply |-> "text"])
                        ELSE Json(500, [error |-> "upstream"])
         /\ UNCHANGED <<tables, uploads, session, current_date>>)

(***************************************************************************)
(* Aggregation.                                                            *)
(***************************************************************************)
\* SELECT Key, SUM(fld) ... GROUP BY Key
GroupBy(rows, Key(_), fld) ==
    {[key |-> k, total |-> SumField({r \in rows : Key(r) = k}, fld)] : k \in {Key(r) : r \in rows}}

Reverse(s) == [i \in 1..Len(s) |-> s[Len(s) + 1 - i]]

RECURSIVE Gcd(_, _)
Gcd(a, b) == IF b = 0 THEN a ELSE Gcd(b, a % b)

\* Decimal arithmetic on amounts of cents.  A quotient is kept as the fraction
\* num/den in lowest terms (the Decimal context rounds it to 28 significant
\* digits); den = 0 stands for the exception a division by zero raises.
Fraction(n, d) ==
    IF d = 0 THEN [num |-> 1, den |-> 0]
    ELSE LET g == Gcd(IF n < 0 THEN 0 - n ELSE n, d) IN [num |-> n \div g, den |-> d \div g]
DecimalDivide(a, b) == Fraction(a, b)
DecimalTimes(q, n) == Fraction(q.num * n, q.den)
Raised(q) == q.den = 0

\* date_part('month', expense_date) = date_part('month', CURRENT_DATE)
InCurrentMonth(expense_date) == DatePartMonth(expense_date) = DatePartMonth(current_date)

\* The mutant: the month filter without WHERE user_id = %s.
SpentRows_AllUsers(user_id) == {e \in expenses : InCurrentMonth(e.expense_date)}

\* The user's expenses that the month filter keeps.
SpentRows(user_id) == {e \in expenses : e.user_id = user_id /\ InCurrentMonth(e.expense_date)}

\* SELECT SUM(amount) ... ; cur.fetchone()['total'] or 0
total_spent_this_month(user_id) == OrZero(SqlSum(SpentRows(user_id), "amount"))

\* income_row['monthly_income'] if income_row else 0
monthly_income_of(user_id) ==
    LET income_row == FetchOne({r \in incomes : r.user_id = user_id})
    IN  IF income_row = Null THEN 0 ELSE income_row[1].monthly_income

\* budget_row['total_monthly_budget'] if budget_row else 0
total_budget_of(user_id) ==
    LET budget_row == FetchOne({r \in budgets : r.user_id = user_id})
    IN  IF budget_row = Null THEN 0 ELSE budget_row[1].total_monthly_budget

\* The mutant: the guard admits a budget of 0.
budget_used_percent_GuardGeq(spent, total_budget) ==
    IF total_budget >= 0 THEN DecimalTimes(DecimalDivide(spent, total_budget), 100)
    ELSE Fraction(0, 1)

\* (total_spent_this_month / total_budget * 100) if total_budget > 0 else 0
budget_used_percent(spent, total_budget) ==
    IF total_budget > 0 THEN DecimalTimes(DecimalDivide(spent, total_budget), 100)
    ELSE Fraction(0, 1)

WeekInterval == 6     \* interval '6 days'
RecentLimit == 5      \* LIMIT 5
MonthsLimit == 6      \* LIMIT 6

\* The rows of the weekly query: expense_date >= current_date - interval '6 days'
WeeklyRows(user_id) ==
    {e \in expenses : /\ e.user_id = user_id
                      /\ DayNumber(e.expense_date) >= DayNumber(current_date) - WeekInterval}

\* {row['day'].strip().upper(): float(row['total']) for row in cur.fetchall()} over
\* the rows grouped by expense_date, in the order of expense_date.  to_char(.., 'DY')
\* is three upper-case letters, which strip() and upper() leave as they are.
weekly_expenses_data(user_id) ==
    LET groups == GroupBy(WeeklyRows(user_id), LAMBDA e : e.expense_date, "amount")
        rows == CHOOSE s \in OrderedBy({[k |-> DayNumber(g.key), v |-> g] : g \in groups}) : TRUE
    IN  DictOf([i \in 1..Len(rows) |-> <<ToCharDY(rows[i].key), Float(rows[i].total)>>])

\* The mutant: the category query without the month filter.
CategoryRows_AllMonths(user_id) == {e \in expenses : e.user_id = user_id}

\* The rows of the category query of the dashboard.
CategoryRows(user_id) == {e \in expenses : e.user_id = user_id /\ InCurrentMonth(e.expense_date)}

\* The dicts {row['category']: float(row['total'])} the rows grouped by category
\* can give, ORDER BY total DESC.
expense_by_category(user_id) ==
    LET groups == GroupBy(CategoryRows(user_id), LAMBDA e : e.category, "amount")
    IN  {DictOf([i \in 1..Len(rows) |-> <<rows[i].key, Float(rows[i].total)>>]) :
            rows \in OrderedBy({[k |-> 0 - g.total, v |-> g] : g \in groups})}

\* The lists of overspent categories the two queries can give.
RECURSIVE Overspent(_, _)
Overspent(budgeted_amounts, spent_rows) ==
    IF spent_rows = <<>> THEN <<>>
    ELSE LET e == Head(spent_rows)
             rest == Overspent(budgeted_amounts, Tail(spent_rows))
         IN  IF DictHas(budgeted_amounts, e.key) /\ e.total > DictGet(budgeted_amounts, e.key, 0)
             THEN <<e.key>> \o rest
             ELSE rest

overspent_categories(user_id) ==
    LET mine == {r \in category_budgets : r.user_id = user_id}
        groups == GroupBy(SpentRows(user_id), LAMBDA e : e.category, "amount")
    IN  {IF budget_rows = <<>> THEN <<>>
         ELSE Overspent(DictOf([i \in 1..Len(budget_rows) |->
                                   <<budget_rows[i].category_name, budget_rows[i].amount>>]),
                        spent_rows) :
            budget_rows \in AnyOrder(mine), spent_rows \in AnyOrder(groups)}

\* The values the dashboard can hand to its template for a user: one for each
\* order the unordered scans can come in.
DashboardBodies(user_id) ==
    LET spent == total_spent_this_month(user_id)
        monthly_income == monthly_income_of(user_id)
        total_budget == total_budget_of(user_id)
        percent == budget_used_percent(spent, total_budget)
        mine == {e \in expenses : e.user_id = user_id}
    IN  {[monthly_income |-> monthly_income,
          total_spent_this_month |-> spent,
          net_balance |-> monthly_income - spent,
          budget_used_percent |-> percent,
          goals |-> v[1],
          recent_expenses_list |-> Limit(v[4], RecentLimit),
          overspent_categories |-> v[3],
          weekly_expenses_data |-> weekly_expenses_data(user_id),
          expense_by_category |-> v[2]] :
            v \in AnyOrder({g \in financial_goals : g.user_id = user_id})
                    \X expense_by_category(user_id)
                    \X overspent_categories(user_id)
                    \X NewestFirst(mine)}

dashboard(c) ==
    /\ Serve(c, "dashboard", "GET", NoArgs)
    /\ login_required(c,
         LET user_id == session[c]
             percent == budget_used_percent(total_spent_this_month(user_id),
                                            total_budget_of(user_id))
         IN
         /\ IF Raised(percent)
            THEN response' = Json(500, [error |-> "ZeroDivisionError"])
            ELSE \E body \in DashboardBodies(user_id) :
                   response' = Render(c, "dashboard.html", body)
         /\ UNCHANGED <<tables, uploads, session, current_date>>)

(***************************************************************************)
(* The comprehensive report.                                               *)
(***************************************************************************)
\* The dicts income_sources can be: 'Salary / Main' first, then every other
\* income of the user stored under its source name, in the order of the scan.
RECURSIVE WithOtherIncomes(_, _)
WithOtherIncomes(income_sources, rows) ==
    IF rows = <<>> THEN income_sources
    ELSE WithOtherIncomes(DictSet(income_sources, Head(rows).source_name, Float(Head(rows).amount)),
                          Tail(rows))

income_sources_of(user_id) ==
    LET main_income == FetchOne({r \in incomes : r.user_id = user_id})
        first == <<<<"Salary / Main",
                     IF main_income = Null THEN 0 ELSE Float(main_income[1].monthly_income)>>>>
        mine == {i \in 1..Len(other_incomes) : other_incomes[i].user_id = user_id}
    IN  {WithOtherIncomes(first, [j \in 1..Len(scan) |-> other_incomes[scan[j]]]) :
            scan \in AnyOrder(mine)}

\* The rows of the monthly query: GROUP BY month ORDER BY month DESC LIMIT 6.
MonthRows(user_id) ==
    LET groups == GroupBy({e \in expenses : e.user_id = user_id},
                          LAMBDA e : ToCharYYYYMM(e.expense_date), "amount")
        rows == CHOOSE s \in OrderedBy({[k |-> Cardinality({h \in groups : SeqLess(g.key, h.key)}),
                                         v |-> g] : g \in groups}) : TRUE
    IN  Limit(rows, MonthsLimit)

\* The mutant: the rows are not reversed.
expenses_by_month_NotReversed(user_id) ==
    LET rows == MonthRows(user_id)
    IN  DictOf([i \in 1..Len(rows) |-> <<rows[i].key, Float(rows[i].total)>>])

\* {row['month']: float(row['total']) for row in reversed(expenses_by_month_rows)}
expenses_by_month(user_id) ==
    LET rows == Reverse(MonthRows(user_id))
    IN  DictOf([i \in 1..Len(rows) |-> <<rows[i].key, Float(rows[i].total)>>])

\* sorted(names): ascending by code point.
Sorted(names) ==
    CHOOSE s \in OrderedBy({[k |-> Cardinality({m \in names : StrLess(m, n)}), v |-> n] :
                              n \in names}) : TRUE

\* The budget_vs_actual objects the two queries can give.
budget_vs_actual(user_id) ==
    LET groups == GroupBy(SpentRows(user_id), LAMBDA e : e.category, "amount")
        mine == {r \in category_budgets : r.user_id = user_id}
    IN  {LET actual_spending == DictOf([i \in 1..Len(spent_rows) |->
                                   <<spent_rows[i].key, Float(spent_rows[i].total)>>])
             budgeted_amounts == DictOf([i \in 1..Len(budget_rows) |->
                                   <<budget_rows[i].category_name, Float(budget_rows[i].amount)>>])
             all_budget_cats == Sorted(Range(DictKeys(actual_spending))
                                         \cup Range(DictKeys(budgeted_amounts)))
         IN  [labels |-> all_budget_cats,
              budgeted |-> [i \in 1..Len(all_budget_cats) |->
                               DictGet(budgeted_amounts, all_budget_cats[i], 0)],
              actual |-> [i \in 1..Len(all_budget_cats) |->
                               DictGet(actual_spending, all_budget_cats[i], 0)]] :
            spent_rows \in AnyOrder(groups), budget_rows \in AnyOrder(mine)}

\* The investments_by_type dicts the query can give.
investments_by_type(user_id) ==
    LET groups == GroupBy({r \in investments : r.user_id = user_id},
                          LAMBDA r : r.investment_type, "amount_invested")
    IN  {DictOf([i \in 1..Len(rows) |-> <<rows[i].key, Float(rows[i].total)>>]) :
            rows \in AnyOrder(groups)}

assets_vs_liabilities(user_id) ==
    [assets |-> Float(OrZero(SqlSum({r \in assets : r.user_id = user_id}, "value"))),
     liabilities |-> Float(OrZero(SqlSum({r \in liabilities : r.user_id = user_id}, "amount_owed")))]

\* labels and expenses are the keys and values of expenses_by_month, and income
\* is [income_sources.get('Salary / Main', 0)] * len(expenses_by_month).
summary_line_graph(user_id, income_sources, by_month) ==
    [labels |-> DictKeys(by_month),
     expenses |-> DictValues(by_month),
     income |-> [i \in 1..Len(by_month) |-> DictGet(income_sources, "Salary / Main", 0)]]

\* The objects the report can return for a user.
ReportBodies(user_id) ==
    LET by_month == expenses_by_month(user_id)
    IN  {[income_by_source |-> v[1],
          expenses_by_month |-> by_month,
          budget_vs_actual |-> v[2],
          investments_by_type |-> v[3],
          assets_vs_liabilities |-> assets_vs_liabilities(user_id),
          summary_line_graph |-> summary_line_graph(user_id, v[1], by_month)] :
            v \in income_sources_of(user_id) \X budget_vs_actual(user_id)
                    \X investments_by_type(user_id)}

comprehensive_report_api(c) ==
    /\ Serve(c, "comprehensive_report_api", "GET", NoArgs)
    /\ login_required(c,
         /\ \E body \in ReportBodies(session[c]) : response' = Json(200, body)
         /\ UNCHANGED <<tables, uploads, session, current_date>>)

(***************************************************************************)
(* Spec: sign-up, sign-in and the rows that are deleted by id.             *)
(***************************************************************************)
Methods == {"GET", "POST"}

\* The rows inserted so far into the tables with an id column.
RowsCreated ==
    (seq.expenses + seq.investments + seq.assets + seq.liabilities + seq.financial_goals)
        - (InitSeq.expenses + InitSeq.investments + InitSeq.assets + InitSeq.liabilities
            + InitSeq.financial_goals)

CanInsert == RowsCreated < MaxRows
RowIds == 1..MaxRows

\* Spec is driven by one client, which signs up and in as either user.
OneClient == {"c1"}

Next ==
    \/ \E c \in OneClient, email \in Emails : signup(c, "POST", email, "pw")
    \/ \E c \in OneClient, email \in Emails, password \in Passwords :
          signin(c, "POST", email, password)
    \/ \E c \in OneClient : logout(c)
    \/ \E c \in OneClient : CanInsert /\ add_goal(c, 300, "savings")
    \/ \E c \in OneClient, id \in RowIds : delete_goal(c, id)
    \/ \E c \in OneClient, action \in {"add", "delete"}, id \in RowIds :
          /\ action = "add" => CanInsert
          /\ investments_page(c, "POST", action, 300, "stock", Today, id)
    \/ \E c \in OneClient, action \in {"add", "delete"}, form_type \in {"asset", "liability"},
          id \in RowIds :
          /\ action = "add" => CanInsert
          /\ assetdebt(c, "POST", action, form_type, 300, id)

Spec == Init /\ [][Next]_vars

\* C1: a delete request (delete_goal, investments or assetdebt with action
\* 'delete') by a logged-in user that names the id of a row owned by another
\* user removes no row of the table, and is answered with a redirect.
OwnedByOther(rows, id, user_id) == \E r \in rows : r.id = id /\ r.user_id # user_id

ForeignDelete(req, handler, form_type, rows) ==
    /\ req.handler = handler
    /\ req.method = "POST"
    /\ req.user_id # NoUser
    /\ handler # "delete_goal" => req.args.action = "delete"
    /\ handler = "assetdebt" => req.args.form_type = form_type
    /\ OwnedByOther(rows, req.args.id, req.user_id)

C1_ForeignDeleteRemovesNothing ==
    [][/\ ForeignDelete(request', "delete_goal", "", financial_goals)
            => financial_goals' = financial_goals /\ response'.status = 302
       /\ ForeignDelete(request', "investments", "", investments)
            => investments' = investments /\ response'.status = 302
       /\ ForeignDelete(request', "assetdebt", "asset", assets)
            => assets' = assets /\ response'.status = 302
       /\ ForeignDelete(request', "assetdebt", "liability", liabilities)
            => liabilities' = liabilities /\ response'.status = 302]_vars

\* C1 witness: the last request was a delete_goal by a logged-in user for a goal of
\* another user, it was answered with a redirect, and the goal is still there.
C1_Witness ==
    /\ ForeignDelete(request, "delete_goal", "", financial_goals)
    /\ response.status = 302
    /\ response.location = "dashboard"

(***************************************************************************)
(* SpecGuard: every handler, for one client and one account.               *)
(***************************************************************************)
BudgetForms ==
    {[k \in {"total_monthly_budget", "category_food", "category_eating_out"} |->
        CASE k = "total_monthly_budget" -> <<total>>
          [] k = "category_food" -> food
          [] k = "category_eating_out" -> eating_out] :
        total \in {0, 1000}, food \in {Blank, <<400>>}, eating_out \in {Blank, <<400>>}}

GuardForm == CHOOSE f \in BudgetForms :
                f["total_monthly_budget"] = <<1000>> /\ f["category_food"] = <<400>>
                    /\ f["category_eating_out"] = Blank

CanInsertGuard == RowsCreated < MaxGuardRows
GuardRowIds == 1..MaxGuardRows

NextGuard ==
    \/ \E c \in OneClient : home(c)
    \/ \E c \in OneClient, method \in Methods : signup(c, method, "a@x", "pw")
    \/ \E c \in OneClient, method \in Methods, password \in Passwords :
          signin(c, method, "a@x", password)
    \/ \E c \in OneClient : logout(c)
    \/ \E c \in OneClient, method \in Methods :
          income(c, method, 300, "$", <<"Freelance">>, <<<<500>>>>)
    \/ \E c \in OneClient, method \in Methods : budget(c, method, GuardForm)
    \/ \E c \in OneClient, file \in {NoFilePart, FilePart(""), FilePart("me.png")} :
          upload_profile_picture(c, file, "u1.png")
    \/ \E c \in OneClient : CanInsertGuard /\ add_goal(c, 300, "savings")
    \/ \E c \in OneClient, id \in GuardRowIds : delete_goal(c, id)
    \/ \E c \in OneClient : dashboard(c)
    \/ \E c \in OneClient, method \in Methods :
          /\ method = "POST" => CanInsertGuard
          /\ expense(c, method, 300, "Food", Today)
    \/ \E c \in OneClient, sort_by \in {"newest", "amount_high_low"} : expenses_list(c, sort_by)
    \/ \E c \in OneClient, method \in Methods, action \in {"add", "delete"}, id \in GuardRowIds :
          /\ action = "add" /\ method = "POST" => CanInsertGuard
          /\ investments_page(c, method, action, 300, "stock", Today, id)
    \/ \E c \in OneClient, method \in Methods, action \in {"add", "delete"},
          form_type \in {"asset", "liability"}, id \in GuardRowIds :
          /\ action = "add" /\ method = "POST" => CanInsertGuard
          /\ assetdebt(c, method, action, form_type, 300, id)
    \/ \E c \in OneClient : reports(c)
    \/ \E c \in OneClient : comprehensive_report_api(c)
    \/ \E c \in OneClient : chatbot_page(c)
    \/ \E c \in OneClient, configured \in BOOLEAN, user_message \in {"", "hi"},
          upstream \in {"ok", "error"} : chat_api(c, configured, user_message, upstream)

SpecGuard == Init /\ [][NextGuard]_vars

\* C2: a request to a protected handler from a session without a user_id is
\* answered with a redirect to sign-in, and leaves every table, the uploaded
\* files and the session as they were.
ProtectedHandlers ==
    {"income", "budget", "upload_profile_picture", "add_goal", "delete_goal", "dashboard",
     "expense", "expenses_list", "investments", "assetdebt", "reports",
     "comprehensive_report_api", "chatbot_page", "chat_api"}

C2_NoSessionRejected ==
    [][request'.handler \in ProtectedHandlers /\ request'.user_id = NoUser
          => /\ response'.status = 302
             /\ response'.location = "signin"
             /\ tables' = tables
             /\ uploads' = uploads
             /\ session' = session]_vars

\* C2 witness: a protected handler was just refused for want of a user_id while the
\* data store holds a user, an income row and an expense.
C2_Witness ==
    /\ request.handler \in ProtectedHandlers
    /\ request.user_id = NoUser
    /\ response.location = "signin"
    /\ users # {} /\ incomes # {} /\ expenses # {}

(***************************************************************************)
(* SpecUpsert: two accounts post the income and the budget forms.          *)
(***************************************************************************)
IncomeForms ==
    {[monthly_income |-> 300, currency |-> "$", source_names |-> <<>>, source_amounts |-> <<>>],
     [monthly_income |-> 500, currency |-> "EUR", source_names |-> <<"Freelance">>,
      source_amounts |-> <<<<500>>>>],
     [monthly_income |-> 300, currency |-> "EUR", source_names |-> <<"Salary / Main", "Freelance", "Rent">>,
      source_amounts |-> <<<<200>>, Blank>>]}

UpsertBudgetForms ==
    {f \in BudgetForms : f["category_food"] = Blank => f["category_eating_out"] = Blank}

NextUpsert ==
    \/ \E c \in OneClient, email \in Emails : signup(c, "POST", email, "pw")
    \/ \E c \in OneClient, email \in Emails : signin(c, "POST", email, "pw")
    \/ \E c \in OneClient : logout(c)
    \/ \E c \in OneClient, method \in Methods, f \in IncomeForms :
          income(c, method, f.monthly_income, f.currency, f.source_names, f.source_amounts)
    \/ \E c \in OneClient, method \in Methods, f \in UpsertBudgetForms : budget(c, method, f)

SpecUpsert == Init /\ [][NextUpsert]_vars

\* C3: after every step each user has at most one row in incomes and at most one
\* in budgets, and after an income (budget) POST of a logged-in user that user's
\* row holds the monthly income and currency (the total budget) just submitted.
RowsOf(rows, user_id) == {r \in rows : r.user_id = user_id}

Posted(req, handler) == req.handler = handler /\ req.method = "POST" /\ req.user_id # NoUser

C3_SingletonRowsReplaced ==
    [][/\ \A u \in {r.user_id : r \in incomes'} : Cardinality(RowsOf(incomes', u)) = 1
       /\ \A u \in {r.user_id : r \in budgets'} : Cardinality(RowsOf(budgets', u)) = 1
       /\ Posted(request', "income")
            => RowsOf(incomes', request'.user_id) =
                 {[user_id |-> request'.user_id,
                   monthly_income |-> request'.args.monthly_income,
                   currency |-> request'.args.currency]}
       /\ Posted(request', "budget")
            => RowsOf(budgets', request'.user_id) =
                 {[user_id |-> request'.user_id,
                   total_monthly_budget |-> request'.args.total_monthly_budget]}]_vars

\* C3 witness: both users have an income row and a budget row, and the last request
\* was an income POST whose values are the ones stored for its user.
C3_Witness ==
    /\ Posted(request, "income")
    /\ Cardinality(incomes) = 2 /\ Cardinality(budgets) = 2
    /\ \E r \in incomes : /\ r.user_id = request.user_id
                          /\ r.monthly_income = request.args.monthly_income
                          /\ r.currency = request.args.currency

(***************************************************************************)
(* The dashboard and the report are read with two accounts signed in, each *)
(* on its own client.                                                      *)
(***************************************************************************)
SignedInUsers ==
    {[id |-> 1, email |-> "a@x", password_hash |-> generate_password_hash("pw"),
      profile_picture_url |-> ""],
     [id |-> 2, email |-> "b@x", password_hash |-> generate_password_hash("pw"),
      profile_picture_url |-> ""]}

\* The state after both sign-ups and sign-ins, on the day given, with the
\* expenses given already stored.
InitSignedIn(today, stored) ==
    /\ users = SignedInUsers
    /\ incomes = {}
    /\ other_incomes = <<>>
    /\ budgets = {}
    /\ category_budgets = {}
    /\ expenses = stored
    /\ investments = {}
    /\ assets = {}
    /\ liabilities = {}
    /\ financial_goals = {}
    /\ seq = [InitSeq EXCEPT !.users = @ + Cardinality(SignedInUsers),
                             !.expenses = @ + Cardinality(stored)]
    /\ uploads = {}
    /\ session = [c \in Clients |-> IF c = "c1" THEN 1 ELSE 2]
    /\ current_date = today
    /\ request = [handler |-> "signin", method |-> "POST", user_id |-> NoUser,
                  args |-> [email |-> "b@x"]]
    /\ response = Redirect("dashboard", "")
    /\ conn = [c \in Clients |-> NoConn]

\* Fewer than MaxExpenses expenses were added since the initial state.
CanAddExpense(stored) == seq.expenses - InitSeq.expenses - Cardinality(stored) < MaxExpenses

(***************************************************************************)
(* SpecDash: expenses dated around today, and the dashboard.               *)
(***************************************************************************)
\* Today is Wednesday 2024-05-15 or Saturday 2024-05-04.  The dates: 2024-05-15,
\* six and seven days before it, seven days after it, the same day a year
\* earlier, and the last day of April.
DashTodays == {Date(2024, 5, 15), Date(2024, 5, 4)}
DashDates == {Date(2024, 5, 15), Date(2024, 5, 9), Date(2024, 5, 8), Date(2024, 5, 22),
              Date(2023, 5, 15), Date(2024, 4, 30)}
Categories == {"Food", "Travel"}

InitDash == \E today \in DashTodays : InitSignedIn(today, {})

NextDash ==
    \/ \E amount \in Amounts, category \in Categories, date \in DashDates :
          CanAddExpense({}) /\ expense("c1", "POST", amount, category, date)
    \/ \E date \in {Date(2024, 5, 15), Date(2023, 5, 15)} :
          CanAddExpense({}) /\ expense("c2", "POST", 300, "Food", date)
    \/ \E c \in Clients : dashboard(c)

SpecDash == InitDash /\ [][NextDash]_vars

\* The dashboard was rendered for the last request.
DashboardShown == request.handler = "dashboard" /\ response.status = 200

\* The expenses of the user dated in the calendar month of CURRENT_DATE.
ThisMonth(user_id) ==
    {e \in expenses : /\ e.user_id = user_id
                      /\ e.expense_date.y = current_date.y
                      /\ e.expense_date.m = current_date.m}

\* C4: total_spent_this_month is the sum of the amounts of the logged-in user's
\* expenses dated in the current calendar month (same month and same year); it is
\* 0 when there is none.
C4_TotalIsCurrentCalendarMonth ==
    DashboardShown =>
        response.body.total_spent_this_month = SumField(ThisMonth(request.user_id), "amount")

\* C5: the values of expense_by_category add up to total_spent_this_month of the
\* same response, its keys are the categories of the user's expenses that the
\* month filter keeps, and each value is the sum of those expenses in the category.
SumSeq(s) == SumField({[i |-> i, v |-> s[i]] : i \in 1..Len(s)}, "v")

FilteredIn(user_id, category) ==
    {e \in expenses : /\ e.user_id = user_id
                      /\ e.category = category
                      /\ e.expense_date.m = current_date.m}

C5_CategoriesAddUpToTotal ==
    DashboardShown =>
        LET by_category == response.body.expense_by_category IN
        /\ SumSeq(DictValues(by_category)) = response.body.total_spent_this_month
        /\ Range(DictKeys(by_category)) =
              {k \in Categories : FilteredIn(request.user_id, k) # {}}
        /\ \A i \in 1..Len(by_category) :
              by_category[i][2] = SumField(FilteredIn(request.user_id, by_category[i][1]), "amount")

\* C5 witness: a dashboard whose breakdown has two categories with different sums.
C5_Witness ==
    /\ DashboardShown
    /\ Len(response.body.expense_by_category) = 2
    /\ response.body.expense_by_category[1][2] # response.body.expense_by_category[2][2]

\* C10: for every weekday label, weekly_expenses_data holds the sum of the amounts
\* of the user's expenses dated from six days before today to today that fall on
\* that weekday (nothing for a label without such an expense); expenses dated
\* outside these seven days change no value.
InTrailingWeek(user_id, label) ==
    {e \in expenses : /\ e.user_id = user_id
                      /\ DayNumber(e.expense_date) >= DayNumber(current_date) - 6
                      /\ DayNumber(e.expense_date) <= DayNumber(current_date)
                      /\ ToCharDY(e.expense_date) = label}

C10_WeeklySeriesIsTrailingWeek ==
    DashboardShown =>
        \A label \in Range(DayNames) :
            DictGet(response.body.weekly_expenses_data, label, 0) =
                SumField(InTrailingWeek(request.user_id, label), "amount")

(***************************************************************************)
(* SpecBudget: budgets, expenses of this May, last May and April, the      *)
(* dashboard and the report.                                               *)
(***************************************************************************)
BudgetDates == {Date(2024, 5, 15), Date(2023, 5, 15), Date(2024, 4, 30)}

DashBudgetForms ==
    {f \in BudgetForms :
        \/ f["total_monthly_budget"] = <<0>> /\ f["category_food"] = Blank
                /\ f["category_eating_out"] = Blank
        \/ f["total_monthly_budget"] = <<1000>> /\ f["category_food"] = <<400>>}

InitBudget == InitSignedIn(Today, {})

NextBudget ==
    \/ \E amount \in Amounts, category \in Categories, date \in BudgetDates :
          CanAddExpense({}) /\ expense("c1", "POST", amount, category, date)
    \/ CanAddExpense({}) /\ expense("c2", "POST", 300, "Food", Today)
    \/ \E f \in DashBudgetForms : budget("c1", "POST", f)
    \/ budget("c2", "POST", GuardForm)
    \/ \E c \in Clients : dashboard(c)
    \/ \E c \in Clients : comprehensive_report_api(c)

SpecBudget == InitBudget /\ [][NextBudget]_vars

\* The report was returned for the last request.
ReportShown == request.handler = "comprehensive_report_api" /\ response.status = 200

\* C7: budget_vs_actual.labels is the sorted, duplicate-free union of the user's
\* category-budget names and the categories of the user's expenses of this
\* calendar month; budgeted and actual are as long as labels; budgeted[i] is the
\* budget of labels[i] and actual[i] this month's spend on labels[i], 0 when there
\* is none.
C7_BudgetVsActual ==
    ReportShown =>
        LET bva == response.body.budget_vs_actual
            mine == RowsOf(category_budgets, request.user_id)
            spent == ThisMonth(request.user_id)
        IN  /\ Range(bva.labels) = {r.category_name : r \in mine} \cup {e.category : e \in spent}
            /\ \A i, j \in 1..Len(bva.labels) : i < j => StrLess(bva.labels[i], bva.labels[j])
            /\ Len(bva.budgeted) = Len(bva.labels)
            /\ Len(bva.actual) = Len(bva.labels)
            /\ \A i \in 1..Len(bva.labels) :
                  /\ bva.budgeted[i] =
                        SumField({r \in mine : r.category_name = bva.labels[i]}, "amount")
                  /\ bva.actual[i] =
                        SumField({e \in spent : e.category = bva.labels[i]}, "amount")

\* C9: the dashboard never fails on a division by zero; budget_used_percent is 0
\* when the user's total budget is 0 or the user has no budget row, whatever was
\* spent, and is spend / total_budget * 100 when the total budget is positive.
C9_BudgetUsedPercent ==
    request.handler = "dashboard" /\ request.user_id # NoUser =>
        LET rows == RowsOf(budgets, request.user_id)
            total_budget == IF rows = {} THEN 0 ELSE (CHOOSE r \in rows : TRUE).total_monthly_budget
            percent == response.body.budget_used_percent
            spend == response.body.total_spent_this_month
        IN  /\ response.status = 200
            /\ total_budget = 0 => percent.num = 0 /\ percent.den = 1
            /\ total_budget > 0 => percent.den > 0 /\ percent.num * total_budget = spend * 100 * percent.den

\* C9 witness: a dashboard for a user whose budget row says 0 and who has spent
\* something this month; the percentage shown is 0.
C9_Witness ==
    /\ DashboardShown
    /\ \E r \in budgets : r.user_id = request.user_id /\ r.total_monthly_budget = 0
    /\ response.body.total_spent_this_month > 0
    /\ response.body.budget_used_percent.num = 0

(***************************************************************************)
(* SpecMonths: expenses over eight months, incomes, and the report.        *)
(***************************************************************************)
\* Six months of expenses of user 1, stored in one of three orders, and one
\* expense of user 2.
SeedOrders ==
    {<<Date(2024, 2, 10), Date(2023, 11, 10), Date(2024, 4, 10), Date(2023, 12, 10),
       Date(2024, 1, 10), Date(2024, 3, 10)>>,
     <<Date(2023, 11, 10), Date(2023, 12, 10), Date(2024, 1, 10), Date(2024, 2, 10),
       Date(2024, 3, 10), Date(2024, 4, 10)>>,
     <<Date(2024, 4, 10), Date(2024, 3, 10), Date(2024, 2, 10), Date(2024, 1, 10),
       Date(2023, 12, 10), Date(2023, 11, 10)>>}

SeedRows(order) ==
    {[id |-> i, user_id |-> 1, amount |-> IF order[i].m % 2 = 0 THEN 300 ELSE 500,
      category |-> "Food", expense_date |-> order[i]] : i \in 1..Len(order)}
    \cup {[id |-> Len(order) + 1, user_id |-> 2, amount |-> 300, category |-> "Food",
           expense_date |-> Date(2024, 4, 10)]}

MonthSeeds == {SeedRows(order) : order \in SeedOrders}
SeedSize == Cardinality(CHOOSE stored \in MonthSeeds : TRUE)

InitMonths == \E stored \in MonthSeeds : InitSignedIn(Today, stored)

CanAddMonth == Cardinality(expenses) < SeedSize + MaxExpenses

NextMonths ==
    \/ \E date \in {Date(2023, 10, 20), Date(2024, 5, 15), Date(2024, 2, 25)} :
          CanAddMonth /\ expense("c1", "POST", 300, "Food", date)
    \/ \E date \in {Date(2024, 5, 15), Date(2023, 12, 31)} :
          CanAddMonth /\ expense("c2", "POST", 300, "Food", date)
    \/ \E f \in IncomeForms :
          income("c1", "POST", f.monthly_income, f.currency, f.source_names, f.source_amounts)
    \/ \E c \in Clients : comprehensive_report_api(c)

SpecMonths == InitMonths /\ [][NextMonths]_vars

\* The year-month a key 'YYYY-MM' names, counted in months.
MonthIndex(key) ==
    ((key[1] - 48) * 1000 + (key[2] - 48) * 100 + (key[3] - 48) * 10 + (key[4] - 48)) * 12
        + (key[6] - 48) * 10 + (key[7] - 48)

\* The year-months in which the user has expenses, counted in months.
MonthsOf(user_id) ==
    {e.expense_date.y * 12 + e.expense_date.m : e \in RowsOf(expenses, user_id)}

\* C6: the keys of expenses_by_month are the user's year-months with expenses, the
\* 6 latest of them when there are more, in ascending chronological order, and
\* each value is the sum of the user's expenses of that year-month.
C6_ExpensesByMonth ==
    ReportShown =>
        LET by_month == response.body.expenses_by_month
            months == MonthsOf(request.user_id)
        IN  /\ {MonthIndex(by_month[i][1]) : i \in 1..Len(by_month)} =
                  {m \in months : Cardinality({n \in months : n > m}) < 6}
            /\ \A i, j \in 1..Len(by_month) :
                  i < j => MonthIndex(by_month[i][1]) < MonthIndex(by_month[j][1])
            /\ \A i \in 1..Len(by_month) :
                  by_month[i][2] =
                     SumField({e \in RowsOf(expenses, request.user_id) :
                                  e.expense_date.y * 12 + e.expense_date.m
                                     = MonthIndex(by_month[i][1])}, "amount")

\* C6 witness: a report with six months for a user with expenses in more than six.
C6_Witness ==
    /\ ReportShown
    /\ Cardinality(MonthsOf(request.user_id)) > 6
    /\ Len(response.body.expenses_by_month) = 6

\* C8: labels, expenses and income of summary_line_graph are equally long, labels
\* and expenses are the keys and values of expenses_by_month in its order, and
\* every element of income is the monthly income of the user's incomes row, 0
\* without a row, whatever other incomes the user has.
C8_SummaryLineGraph ==
    ReportShown =>
        LET graph == response.body.summary_line_graph
            by_month == response.body.expenses_by_month
            rows == RowsOf(incomes, request.user_id)
        IN  /\ Len(graph.labels) = Len(by_month)
            /\ Len(graph.expenses) = Len(by_month)
            /\ Len(graph.income) = Len(by_month)
            /\ \A i \in 1..Len(by_month) :
                  /\ graph.labels[i] = by_month[i][1]
                  /\ graph.expenses[i] = by_month[i][2]
                  /\ graph.income[i] =
                        IF rows = {} THEN 0 ELSE (CHOOSE r \in rows : TRUE).monthly_income

(***************************************************************************)
(* SpecAlerts: category budgets below, at and above what is spent, and the *)
(* dashboard's overspending alerts.                                        *)
(***************************************************************************)
AlertForms ==
    {[k \in {"total_monthly_budget", "category_food", "category_eating_out"} |->
        CASE k = "total_monthly_budget" -> <<1000>>
          [] k = "category_food" -> food
          [] k = "category_eating_out" -> eating_out] :
        food \in {Blank, <<500>>}, eating_out \in {Blank, <<400>>}}

AlertDates == {Date(2024, 5, 15), Date(2023, 5, 15)}

InitAlerts == InitSignedIn(Today, {})

NextAlerts ==
    \/ \E amount \in Amounts, category \in Categories, date \in AlertDates :
          CanAddExpense({}) /\ expense("c1", "POST", amount, category, date)
    \/ CanAddExpense({}) /\ expense("c2", "POST", 500, "Food", Today)
    \/ \E f \in AlertForms : budget("c1", "POST", f)
    \/ budget("c2", "POST", GuardForm)
    \/ \E c \in Clients : dashboard(c)

SpecAlerts == InitAlerts /\ [][NextAlerts]_vars

\* C11: overspent_categories holds a category exactly when the user has a
\* category budget of that name and the user's spend in it in the current
\* calendar month is strictly greater than the budget; spend equal to the budget,
\* spend without a budget and a budget without spend are not flagged.
C11_OverspentExactly ==
    DashboardShown =>
        LET mine == RowsOf(category_budgets, request.user_id)
            spent == ThisMonth(request.user_id)
        IN  Range(response.body.overspent_categories) =
               {r.category_name :
                  r \in {b \in mine :
                           SumField({e \in spent : e.category = b.category_name}, "amount")
                              > b.amount}}

(***************************************************************************)
(* The writing handlers, statement by statement.  psycopg2 opens the       *)
(* transaction at the first execute and the handler commits once; a        *)
(* statement that raises ends the handler at once (no handler has a try    *)
(* or a finally around its statements), so neither conn.commit() nor       *)
(* conn.close() runs.  conn[c].program holds the statements still to run,  *)
(* conn[c].writes the statements executed and not yet committed: the data  *)
(* store shows them to nobody else (READ COMMITTED).                       *)
(***************************************************************************)
Statement(op, table, row) == [op |-> op, table |-> table, row |-> row, matched |-> {}]

Executes == {"select", "upsert", "delete", "insert"}

\* The tables whose id column is SERIAL.
Serial == {"users", "investments"}

\* The rows of a table, by its name.
TableRows(table) ==
    CASE table = "users" -> users
      [] table = "incomes" -> incomes
      [] table = "other_incomes" -> Range(other_incomes)
      [] table = "budgets" -> budgets
      [] table = "category_budgets" -> category_budgets
      [] table = "investments" -> investments

\* WHERE f1 = v1 AND f2 = v2 ...: the rows that agree with `where` on its columns.
Matched(rows, where) == {r \in rows : \A f \in DOMAIN where : r[f] = where[f]}

\* The statements of the income POST after get_db_connection().
IncomeProgram(user_id, monthly_income, currency, source_names, source_amounts) ==
    LET rows == OtherIncomeRows(user_id, Zip(source_names, source_amounts))
    IN  <<Statement("upsert", "incomes", [user_id |-> user_id, monthly_income |-> monthly_income,
                                          currency |-> currency]),
          Statement("delete", "other_incomes", [user_id |-> user_id])>>
        \o [i \in 1..Len(rows) |-> Statement("insert", "other_incomes", rows[i])]
        \o <<Statement("commit", "", NoArgs),
             Statement("close", "", Redirect("budget", "Income details saved."))>>

\* The statements of the budget POST; `rows` are the category rows in the order
\* of the form's fields.
BudgetProgram(user_id, form, rows) ==
    <<Statement("upsert", "budgets", [user_id |-> user_id,
                                      total_monthly_budget |-> form["total_monthly_budget"][1]]),
      Statement("delete", "category_budgets", [user_id |-> user_id])>>
    \o [i \in 1..Len(rows) |-> Statement("insert", "category_budgets", rows[i])]
    \o <<Statement("commit", "", NoArgs),
         Statement("close", "", Redirect("expense",
                     "Budgets saved successfully! Now you can start adding expenses."))>>

\* conn = get_db_connection() of a handler about to run `program`.
get_db_connection(c, handler, user_id, program) ==
    /\ ~conn[c].open
    /\ conn' = [conn EXCEPT ![c] = [open |-> TRUE, running |-> TRUE, handler |-> handler,
                                    user_id |-> user_id, program |-> program, writes |-> <<>>]]

\* POST /income up to get_db_connection().
income_post(c, monthly_income, currency, source_names, source_amounts) ==
    /\ LoggedIn(c)
    /\ request' = Req(c, "income", "POST", [monthly_income |-> monthly_income, currency |-> currency])
    /\ get_db_connection(c, "income", session[c],
          IncomeProgram(session[c], monthly_income, currency, source_names, source_amounts))
    /\ UNCHANGED <<tables, uploads, session, current_date, response>>

\* POST /budget up to get_db_connection().
budget_post(c, form) ==
    /\ LoggedIn(c)
    /\ request' = Req(c, "budget", "POST", [total_monthly_budget |-> form["total_monthly_budget"][1]])
    /\ \E rows \in AnyOrder(CategoryBudgetRows(session[c], form)) :
          get_db_connection(c, "budget", session[c], BudgetProgram(session[c], form, rows))
    /\ UNCHANGED <<tables, uploads, session, current_date, response>>

\* POST /signup up to get_db_connection(); the SELECT decides what follows.
signup_post(c, email, password) ==
    /\ request' = Req(c, "signup", "POST", [email |-> email])
    /\ get_db_connection(c, "signup", NoUser,
          <<Statement("select", "users", [email |-> email, password |-> password])>>)
    /\ UNCHANGED <<tables, uploads, session, current_date, response>>

\* /investments up to the first statement.
investments_request(c, method, action, amount_invested, investment_type, investment_date, investment_id) ==
    /\ LoggedIn(c)
    /\ request' = Req(c, "investments", method, [action |-> action, id |-> investment_id])
    /\ get_db_connection(c, "investments", session[c],
          IF method = "POST"
          THEN (IF action = "add"
                THEN <<Statement("insert", "investments",
                          [user_id |-> session[c], amount_invested |-> amount_invested,
                           investment_type |-> investment_type,
                           investment_date |-> investment_date])>>
                ELSE IF action = "delete"
                THEN <<Statement("delete", "investments",
                          [id |-> investment_id, user_id |-> session[c]])>>
                ELSE <<>>)
               \o <<Statement("commit", "", NoArgs),
                    Statement("close", "",
                       Redirect("investments",
                          IF action = "add" THEN "Investment added successfully!"
                          ELSE IF action = "delete" THEN "Investment deleted." ELSE ""))>>
          ELSE <<Statement("select", "investments", [user_id |-> session[c]])>>)
    /\ UNCHANGED <<tables, uploads, session, current_date, response>>

\* cur.execute of a SELECT and the fetch after it: the rows decide how the
\* handler goes on.
fetch(c) ==
    /\ conn[c].running
    /\ Head(conn[c].program).op = "select"
    /\ LET st == Head(conn[c].program)
       IN  IF conn[c].handler = "signup"
           THEN conn' = [conn EXCEPT ![c].program =
                   IF Matched(users, [email |-> st.row.email]) # {}
                   THEN <<Statement("close", "",
                             Redirect("signup", "Email address already registered."))>>
                   ELSE <<Statement("insert", "users",
                             [email |-> st.row.email,
                              password_hash |-> generate_password_hash(st.row.password),
                              profile_picture_url |-> ""]),
                          Statement("commit", "", NoArgs),
                          Statement("close", "",
                             Redirect("income", "Account created! Let's start with your income."))>>]
           ELSE \E rows \in OrderedBy({[k |-> 0 - DayNumber(r.investment_date), v |-> r] :
                                         r \in Matched(investments, st.row)}) :
                   conn' = [conn EXCEPT ![c].program =
                      <<Statement("close", "",
                           Render(c, "investments.html", [investments |-> rows]))>>]
    /\ UNCHANGED <<tables, uploads, session, current_date, request, response>>

\* The mutant: the upsert does not wait for the row another transaction holds.
Blocked_NoWait(c, st) == FALSE

\* INSERT ... ON CONFLICT (user_id) DO UPDATE waits while another open
\* transaction has written the row of the same user_id and not ended; a DELETE
\* waits for the rows another open transaction has deleted.
Blocked(c, st) ==
    \E d \in Clients \ {c} :
        /\ conn[d].open
        /\ \E i \in 1..Len(conn[d].writes) :
              LET w == conn[d].writes[i]
              IN  /\ w.table = st.table
                  /\ \/ st.op = "upsert" /\ w.op = "upsert" /\ w.row.user_id = st.row.user_id
                     \/ st.op = "delete" /\ w.op = "delete"
                          /\ w.matched \cap Matched(TableRows(st.table), st.row) # {}

\* cur.execute(...) of the next statement, when it succeeds.
execute(c) ==
    /\ conn[c].running
    /\ Head(conn[c].program).op \in Executes \ {"select"}
    /\ ~Blocked(c, Head(conn[c].program))
    /\ LET st == Head(conn[c].program)
       IN  IF st.op = "insert" /\ st.table \in Serial
           THEN \* nextval of the id column; signup reads it back (RETURNING id)
                /\ conn' = [conn EXCEPT
                      ![c].program = Tail(@),
                      ![c].writes = Append(@, [st EXCEPT !.row = [id |-> seq[st.table]] @@ @]),
                      ![c].user_id = IF st.table = "users" THEN seq[st.table] ELSE @]
                /\ seq' = [seq EXCEPT ![st.table] = @ + 1]
           ELSE /\ conn' = [conn EXCEPT
                      ![c].program = Tail(@),
                      ![c].writes = Append(@, [st EXCEPT !.matched =
                                         IF st.op = "insert" THEN {}
                                         ELSE IF st.op = "upsert"
                                         THEN \* the row the upsert conflicts with
                                              Matched(TableRows(st.table),
                                                      [user_id |-> st.row.user_id])
                                         ELSE Matched(TableRows(st.table), st.row)])]
                /\ UNCHANGED seq
    /\ UNCHANGED <<users, moneyTables, listTables, uploads, session, current_date,
                   request, response>>

\* The writes of a transaction, applied to the rows of a table held as a set.
RECURSIVE Replay(_, _, _)
Replay(rows, writes, table) ==
    IF writes = <<>> THEN rows
    ELSE LET w == Head(writes)
             next == IF w.table # table THEN rows
                     ELSE CASE w.op = "upsert" -> Upsert(rows, w.row)
                            [] w.op = "delete" -> rows \ w.matched
                            [] w.op = "insert" -> rows \cup {w.row}
         IN  Replay(next, Tail(writes), table)

\* The same for other_incomes, held in heap order.
RECURSIVE ReplaySeq(_, _, _)
ReplaySeq(rows, writes, table) ==
    IF writes = <<>> THEN rows
    ELSE LET w == Head(writes)
             next == IF w.table # table THEN rows
                     ELSE CASE w.op = "delete" -> SelectSeq(rows, LAMBDA r : r \notin w.matched)
                            [] w.op = "insert" -> Append(rows, w.row)
         IN  ReplaySeq(next, Tail(writes), table)

\* The store takes the writes given.
Persist(writes) ==
    /\ users' = Replay(users, writes, "users")
    /\ incomes' = Replay(incomes, writes, "incomes")
    /\ other_incomes' = ReplaySeq(other_incomes, writes, "other_incomes")
    /\ budgets' = Replay(budgets, writes, "budgets")
    /\ category_budgets' = Replay(category_budgets, writes, "category_budgets")
    /\ investments' = Replay(investments, writes, "investments")
    /\ UNCHANGED <<expenses, assets, liabilities, financial_goals, seq>>

\* conn.commit()
commit(c) ==
    /\ conn[c].running
    /\ Head(conn[c].program).op = "commit"
    /\ Persist(conn[c].writes)
    /\ conn' = [conn EXCEPT ![c].program = Tail(@), ![c].writes = <<>>]
    /\ UNCHANGED <<uploads, session, current_date, request, response>>

\* cur.close(); conn.close(); flash(...); return ...
close(c) ==
    /\ conn[c].running
    /\ Head(conn[c].program).op = "close"
    /\ response' = Head(conn[c].program).row
    /\ session' = IF conn[c].handler = "signup" /\ conn[c].user_id # NoUser
                  THEN [session EXCEPT ![c] = conn[c].user_id]
                  ELSE session
    /\ conn' = [conn EXCEPT ![c] = NoConn]
    /\ UNCHANGED <<tables, uploads, current_date, request>>

\* The mutant: the connection commits every statement as it is executed.
Uncommitted_Autocommit(writes) == writes

\* What the store keeps of the writes of a transaction that never commits:
\* psycopg2.connect() leaves autocommit off, so nothing.
Uncommitted(writes) == <<>>

\* cur.execute(...) of the next statement raises (a value the column does not
\* take, a lost connection, a statement the server cancels): the exception leaves
\* the handler, Flask answers 500, and the connection stays as it is.
raise(c) ==
    /\ conn[c].running
    /\ Head(conn[c].program).op \in Executes
    /\ Persist(Uncommitted(conn[c].writes))
    /\ conn' = [conn EXCEPT ![c].running = FALSE]
    /\ response' = [status |-> 500, location |-> "", template |-> "", flash |-> "",
                    body |-> NoBody, current_user |-> Null]
    /\ UNCHANGED <<uploads, session, current_date, request>>

\* The connection object of a handler that raised is deallocated: the server
\* rolls the open transaction back.
dealloc(c) ==
    /\ conn[c].open
    /\ ~conn[c].running
    /\ conn' = [conn EXCEPT ![c] = NoConn]
    /\ UNCHANGED <<tables, uploads, session, current_date, request, response>>

(***************************************************************************)
(* SpecTxn: requests of two users run statement by statement; any          *)
(* statement may raise.                                                    *)
(***************************************************************************)
TxnIncomeForms ==
    {[monthly_income |-> 300, currency |-> "$", source_names |-> <<"Freelance">>,
      source_amounts |-> <<<<500>>>>],
     [monthly_income |-> 500, currency |-> "EUR", source_names |-> <<"Rent", "Bonus">>,
      source_amounts |-> <<<<300>>, <<500>>>>]}

TxnBudgetForms ==
    {f \in BudgetForms : f["total_monthly_budget"] = <<1000>> /\ f["category_food"] = <<400>>}

InitTxn == InitSignedIn(Today, {})

\* No request is in flight and no connection is left over.
NoneOpen == \A c \in Clients : ~conn[c].open

NextTxn ==
    \/ \E f \in TxnIncomeForms :
          /\ NoneOpen
          /\ income_post("c1", f.monthly_income, f.currency, f.source_names, f.source_amounts)
    \/ \E f \in TxnBudgetForms : NoneOpen /\ budget_post("c2", f)
    \/ \E email \in {"a@x", "n@x"} :
          /\ NoneOpen
          /\ seq.users - Cardinality(SignedInUsers) <= MaxGuardRows
          /\ signup_post("c2", email, "pw")
    \/ \E method \in Methods, action \in {"add", "delete"} :
          /\ NoneOpen
          /\ seq.investments <= MaxGuardRows
          /\ investments_request("c2", method, action, 300, "Stocks", Today, 1)
    \/ \E c \in Clients : fetch(c)
    \/ \E c \in Clients : execute(c)
    \/ \E c \in Clients : commit(c)
    \/ \E c \in Clients : close(c)
    \/ \E c \in Clients : raise(c)
    \/ \E c \in Clients : dealloc(c)

SpecTxn == InitTxn /\ [][NextTxn]_vars

\* The handler of c has raised at a statement after its DELETE.
RaisedAfterDelete(c) ==
    /\ conn[c].open
    /\ ~conn[c].running
    /\ \E i \in 1..Len(conn[c].writes) : conn[c].writes[i].op = "delete"

\* The rows the handler of c inserted before it raised.
InsertedBy(c) ==
    {conn[c].writes[i].row : i \in {j \in 1..Len(conn[c].writes) : conn[c].writes[j].op = "insert"}}

\* C12 as claimed: after an income or budget POST has raised at a statement after
\* its DELETE, the user's old list rows are gone from the store, which holds of
\* that user's list only rows of the new list.
C12_FailureLeavesListCleared ==
    \A c \in Clients :
        RaisedAfterDelete(c) /\ conn[c].handler \in {"income", "budget"} =>
            \A i \in 1..Len(conn[c].writes) :
                conn[c].writes[i].op = "delete" =>
                    RowsOf(TableRows(conn[c].writes[i].table), conn[c].user_id) \subseteq InsertedBy(c)

\* C12 as amended: after an income or budget POST has raised at a statement after
\* its DELETE, the store holds for that user exactly the rows it held when the
\* upsert and the DELETE ran: the old singleton row and the whole old list.
C12_FailureLeavesStoreUnchanged ==
    \A c \in Clients :
        RaisedAfterDelete(c) /\ conn[c].handler \in {"income", "budget"} =>
            \A i \in 1..Len(conn[c].writes) :
                conn[c].writes[i].op \in {"upsert", "delete"} =>
                    RowsOf(TableRows(conn[c].writes[i].table), conn[c].user_id)
                        = conn[c].writes[i].matched

\* C12 witness: a POST whose second INSERT raised, of a user who had a list and a
\* singleton row before.
C12_Witness ==
    \E c \in Clients :
        /\ RaisedAfterDelete(c)
        /\ conn[c].handler \in {"income", "budget"}
        /\ InsertedBy(c) # {}
        /\ Head(conn[c].program).op = "insert"
        /\ \A i \in 1..Len(conn[c].writes) :
              conn[c].writes[i].op \in {"upsert", "delete"} => conn[c].writes[i].matched # {}
        /\ \E i \in 1..Len(conn[c].writes) :
              conn[c].writes[i].op = "delete" /\ conn[c].writes[i].matched # InsertedBy(c)

\* C13: no handler has ended, by a return or by an exception, with the connection
\* it opened still open.
C13_NoConnectionLeftOpen ==
    \A c \in Clients : conn[c].open => conn[c].running

(***************************************************************************)
(* SpecRace: two clients, signed in as two users or as the same user, post *)
(* the income and the budget forms side by side; no statement raises.      *)
(***************************************************************************)
RaceIncomeForm(c) ==
    IF c = "c1"
    THEN [monthly_income |-> 300, currency |-> "$", source_names |-> <<>>, source_amounts |-> <<>>]
    ELSE [monthly_income |-> 500, currency |-> "EUR", source_names |-> <<"Freelance">>,
          source_amounts |-> <<<<500>>>>]

RaceBudgetForm(c) ==
    CHOOSE f \in BudgetForms :
        /\ f["category_eating_out"] = Blank
        /\ IF c = "c1"
           THEN f["total_monthly_budget"] = <<0>> /\ f["category_food"] = Blank
           ELSE f["total_monthly_budget"] = <<1000>> /\ f["category_food"] = <<400>>

InitRace == InitSignedIn(Today, {})

NextRace ==
    \/ NoneOpen /\ signin("c2", "POST", "a@x", "pw")
    \/ \E c \in Clients :
          LET f == RaceIncomeForm(c)
          IN  income_post(c, f.monthly_income, f.currency, f.source_names, f.source_amounts)
    \/ \E c \in Clients : budget_post(c, RaceBudgetForm(c))
    \/ \E c \in Clients : execute(c)
    \/ \E c \in Clients : commit(c)
    \/ \E c \in Clients : close(c)

SpecRace == InitRace /\ [][NextRace]_vars

\* The upserts a connection has executed and not committed.
PendingUpserts(c) ==
    {conn[c].writes[i] : i \in {j \in 1..Len(conn[c].writes) : conn[c].writes[j].op = "upsert"}}

\* The request of c can take its next step.
CanStep(c) ==
    /\ conn[c].running
    /\ Head(conn[c].program).op \in Executes => ~Blocked(c, Head(conn[c].program))

\* C14: however two income POSTs or two budget POSTs of one user interleave, a
\* user never has two incomes or two budgets rows; when a request commits, the
\* user's row holds the values that request submitted and no other request has
\* upserted the row since, so once both have committed the row is that of the
\* request whose upsert came last; and some request in flight can always go on:
\* neither waits for the other for ever or is aborted for it.
C14_ConcurrentUpsertsLastWins ==
    /\ [](/\ \A r1, r2 \in incomes : r1.user_id = r2.user_id => r1 = r2
          /\ \A r1, r2 \in budgets : r1.user_id = r2.user_id => r1 = r2
          /\ (\E c \in Clients : conn[c].running) => \E c \in Clients : CanStep(c))
    /\ [][\A c \in Clients :
            conn[c].running /\ Head(conn[c].program).op = "commit" /\ conn'[c] # conn[c] =>
                \A w \in PendingUpserts(c) :
                    /\ RowsOf(IF w.table = "incomes" THEN incomes' ELSE budgets', w.row.user_id)
                          = {w.row}
                    /\ \A d \in Clients \ {c} :
                          \A v \in PendingUpserts(d) :
                              ~(v.table = w.table /\ v.row.user_id = w.row.user_id)]_vars

\* C14 witness: two POSTs of the same form by the same user with different
\* values are in flight; one has upserted, the other waits for it.
C14_Witness ==
    \E c, d \in Clients :
        /\ conn[c].running /\ conn[d].running
        /\ conn[c].user_id = conn[d].user_id
        /\ conn[c].handler = conn[d].handler
        /\ PendingUpserts(d) # {}
        /\ Head(conn[c].program).op = "upsert"
        /\ Blocked(c, Head(conn[c].program))
        /\ Head(conn[c].program).row \notin PendingUpserts(d)

(***************************************************************************)
(* SpecIso: two users add and delete rows of every kind and post the       *)
(* income and the budget forms; each looks at its dashboard and report.    *)
(***************************************************************************)
IsoIncomeForm(c) ==
    IF c = "c1"
    THEN [monthly_income |-> 300, currency |-> "$", source_names |-> <<"Freelance">>,
          source_amounts |-> <<<<500>>>>]
    ELSE [monthly_income |-> 500, currency |-> "EUR", source_names |-> <<"Freelance">>,
          source_amounts |-> <<<<300>>>>]

IsoBudgetForm(c) ==
    CHOOSE f \in BudgetForms :
        /\ f["category_food"] = <<400>>
        /\ IF c = "c1"
           THEN f["total_monthly_budget"] = <<1000>> /\ f["category_eating_out"] = Blank
           ELSE f["total_monthly_budget"] = <<0>> /\ f["category_eating_out"] = <<400>>

InitIso == InitSignedIn(Today, {})

NextIso ==
    \/ \E c \in Clients : CanInsert /\ expense(c, "POST", 300, "Food", Today)
    \/ CanInsert /\ add_goal("c2", 300, "savings")
    \/ \E id \in RowIds : delete_goal("c2", id)
    \/ \E action \in {"add", "delete"} :
          /\ action = "add" => CanInsert
          /\ investments_page("c2", "POST", action, 300, "stock", Today, 1)
    \/ \E action \in {"add", "delete"}, form_type \in {"asset", "liability"} :
          /\ action = "add" => CanInsert
          /\ assetdebt("c2", "POST", action, form_type, 300, 1)
    \/ \E c \in Clients :
          LET f == IsoIncomeForm(c)
          IN  income(c, "POST", f.monthly_income, f.currency, f.source_names, f.source_amounts)
    \/ \E c \in Clients : budget(c, "POST", IsoBudgetForm(c))
    \/ dashboard("c1")
    \/ comprehensive_report_api("c1")

SpecIso == InitIso /\ [][NextIso]_vars

\* The rows of a user in every table.
Mine(user_id) ==
    <<RowsOf(incomes, user_id), SelectSeq(other_incomes, LAMBDA r : r.user_id = user_id),
      RowsOf(budgets, user_id), RowsOf(category_budgets, user_id), RowsOf(expenses, user_id),
      RowsOf(investments, user_id), RowsOf(assets, user_id), RowsOf(liabilities, user_id),
      RowsOf(financial_goals, user_id)>>

\* A request of another user than user_id is served in this step and writes to
\* the store.
OtherUserActs(user_id) == request'.user_id \notin {user_id, NoUser} /\ tables' # tables

\* The request served last was the handler's, for user_id.
LastServed(handler, user_id) == request.handler = handler /\ request.user_id = user_id

\* The query results the dashboard builds its body from (DashboardBodies is a
\* function of them), and those the report builds its object from.
DashboardQueries(user_id) ==
    <<monthly_income_of(user_id), total_spent_this_month(user_id), total_budget_of(user_id),
      RowsOf(financial_goals, user_id), NewestFirst(RowsOf(expenses, user_id)),
      overspent_categories(user_id), weekly_expenses_data(user_id),
      expense_by_category(user_id)>>

ReportQueries(user_id) ==
    <<income_sources_of(user_id), expenses_by_month(user_id), budget_vs_actual(user_id),
      investments_by_type(user_id), assets_vs_liabilities(user_id)>>

\* C15 as amended: no writing request of another user changes a row of a user or a
\* value the dashboard and the report return for that user: the rows are after
\* the request what they were before it, and so is the result of every query
\* behind a dashboard or a report the user has just fetched; the income and
\* budget POSTs of the other user delete and insert rows of that other user only.
C15_OtherUserChangesNothing ==
    [][\A user_id \in {u.id : u \in users} :
          OtherUserActs(user_id) =>
              /\ Mine(user_id)' = Mine(user_id)
              /\ LastServed("dashboard", user_id) =>
                    DashboardQueries(user_id)' = DashboardQueries(user_id)
              /\ LastServed("comprehensive_report_api", user_id) =>
                    ReportQueries(user_id)' = ReportQueries(user_id)]_vars

\* C15 as claimed: what the dashboard and the report return for a user is what
\* they return in the run without the requests of the other user, in which the
\* user's expenses are numbered 1, 2, ... as they are added; and the other
\* user's requests change no row and no returned value of the user.
C15_SameAsWithoutOtherUser ==
    /\ [](DashboardShown =>
            \A i \in 1..Len(response.body.recent_expenses_list) :
                response.body.recent_expenses_list[i].id
                    <= Cardinality(RowsOf(expenses, request.user_id)))
    /\ C15_OtherUserChangesNothing

\* C15 witness: a user with rows of every list and a dashboard that is not empty,
\* right after the other user has posted its income or budget form.
C15_Witness ==
    /\ request.handler \in {"income", "budget"}
    /\ request.method = "POST"
    /\ \E u \in users :
          /\ u.id \notin {request.user_id, NoUser}
          /\ Mine(u.id)[2] # <<>>
          /\ Mine(u.id)[4] # {}
          /\ Mine(request.user_id)[2] # <<>>
          /\ Mine(request.user_id)[4] # {}

====
